---- MODULE Spec2Model ----
(***************************************************************************)
(* Model of the LetsExtract cleaner: DataCleaner (cleaner.py), its rule    *)
(* set (config.py) and the document handler that calls it (bot.py).        *)
(*                                                                         *)
(* Text is a sequence of one-character strings, so that lower-casing,      *)
(* trimming, suffix and substring tests are computed, not assumed.  The    *)
(* module is ASCII: a Cyrillic letter is written as a token ("cyr_er" for  *)
(* U+0440, "cyr_ef" for U+0444, "CYR_ER"/"CYR_EF" for their capitals) and  *)
(* the Cyrillic column names are transliterated.                           *)
(***************************************************************************)
EXTENDS Integers, Sequences, FiniteSets, TLC

VARIABLES
    files,      \* the file system: path -> file
    stats,      \* DataCleaner.stats of the one long-lived instance
    last,       \* the most recent clean_file call on that instance
    bot         \* what the most recent handle_document call did

vars == <<files, stats, last, bot>>

(***************************************************************************)
(* Bounds of the model.                                                    *)
(***************************************************************************)
MaxRows == 2        \* rows of an input sheet with the required columns
MaxSchemaRows == 1  \* rows of an input sheet with an arbitrary header

(***************************************************************************)
(* Text.                                                                   *)
(***************************************************************************)
UpperChars ==
    << "A","B","C","D","E","F","G","H","I","J","K","L","M","N","O","P","Q",
       "R","S","T","U","V","W","X","Y","Z","CYR_ER","CYR_EF" >>

LowerChars ==
    << "a","b","c","d","e","f","g","h","i","j","k","l","m","n","o","p","q",
       "r","s","t","u","v","w","x","y","z","cyr_er","cyr_ef" >>

Whitespace == {" ", "\t", "\n", "\r"}

LowerChar(c) ==
    IF \E i \in 1..Len(UpperChars) : UpperChars[i] = c
    THEN LowerChars[CHOOSE i \in 1..Len(UpperChars) : UpperChars[i] = c]
    ELSE c

\* str.lower()
Lower(s) == [i \in 1..Len(s) |-> LowerChar(s[i])]

RECURSIVE LStrip(_)
LStrip(s) ==
    IF s # <<>> /\ Head(s) \in Whitespace THEN LStrip(Tail(s)) ELSE s

RECURSIVE RStrip(_)
RStrip(s) ==
    IF s # <<>> /\ s[Len(s)] \in Whitespace
    THEN RStrip(SubSeq(s, 1, Len(s) - 1))
    ELSE s

\* str.strip()
Strip(s) == RStrip(LStrip(s))

\* str.endswith(suffix)
EndsWith(s, suffix) ==
    /\ Len(s) >= Len(suffix)
    /\ SubSeq(s, Len(s) - Len(suffix) + 1, Len(s)) = suffix

\* sub in s
Contains(s, sub) ==
    \E i \in 1..(Len(s) - Len(sub) + 1) : SubSeq(s, i, i + Len(sub) - 1) = sub

(***************************************************************************)
(* config.py                                                               *)
(***************************************************************************)
\* [".ru", ".рф", ".su"]
RUSSIAN_ZONES ==
    << <<".","r","u">>, <<".","cyr_er","cyr_ef">>, <<".","s","u">> >>

SEARCH_ENGINE_DOMAINS ==
    << <<"s","e","a","r","c","h",".","y","a","h","o","o">>,
       <<"s","e","a","r","c","h",".","b","r","a","v","e">>,
       <<"g","o","o","g","l","e",".","c","o","m">>,
       <<"g","o","o","g","l","e",".","r","u">>,
       <<"y","a","n","d","e","x",".","r","u","/","s","e","a","r","c","h">>,
       <<"b","i","n","g",".","c","o","m">>,
       <<"d","u","c","k","d","u","c","k","g","o",".","c","o","m">> >>

\* "Значение", "Домен", "Заголовок", "META Description"
ColValue == "Znachenie"
ColDomain == "Domen"
ColTitle == "Zagolovok"
ColMeta == "META Description"

REQUIRED_COLUMNS == <<ColValue, ColDomain, ColTitle, ColMeta>>

(***************************************************************************)
(* Spreadsheet files and data frames.                                      *)
(*                                                                         *)
(* A file is absent, unreadable, or a sheet: a header and rows of text     *)
(* cells (a blank cell is the empty text).  A data frame is what pandas    *)
(* makes of a sheet: the columns, and rows that keep their index label     *)
(* through every selection; a missing value is NaN.                        *)
(***************************************************************************)
NaN == <<"NaN">>

AbsentFile == [kind |-> "absent", columns |-> <<>>, rows |-> <<>>]

\* Bytes that are no spreadsheet at all: pandas cannot determine the format
\* and raises ValueError.
NotExcelFile == [kind |-> "not_excel", columns |-> <<>>, rows |-> <<>>]

\* A broken archive: the reader raises BadZipFile, which is no ValueError.
BadZipFile == [kind |-> "bad_zip", columns |-> <<>>, rows |-> <<>>]

Sheet(columns, rows) == [kind |-> "xlsx", columns |-> columns, rows |-> rows]

\* Cell texts that read_excel turns into a missing value (its default
\* na_values, as far as the model's alphabet goes).
NaValues == { <<>>, <<"n","a","n">>, <<"N","a","N">>, <<"N","A">> }

ReadCell(c) == IF c \in NaValues THEN NaN ELSE c

\* pd.read_excel(input_path) of a readable sheet
ReadExcel(file) ==
    [ columns |-> file.columns,
      rows |-> [ i \in 1..Len(file.rows) |->
                   [ idx |-> i - 1,
                     cells |-> [ j \in 1..Len(file.rows[i]) |->
                                   ReadCell(file.rows[i][j]) ] ] ] ]

\* The exception read_excel raises on a file that is no readable sheet.
ReadError(file) ==
    CASE file.kind = "absent" -> "FileNotFoundError"
      [] file.kind = "not_excel" -> "ValueError"
      [] file.kind = "bad_zip" -> "BadZipFile"
      [] OTHER -> "none"

WriteCell(c) == IF c = NaN THEN <<>> ELSE c

\* df.to_excel(output_path, index=False)
ToExcel(df) ==
    Sheet(df.columns,
          [ i \in 1..Len(df.rows) |->
              [ j \in 1..Len(df.rows[i].cells) |->
                  WriteCell(df.rows[i].cells[j]) ] ])

HasColumn(df, name) == \E j \in 1..Len(df.columns) : df.columns[j] = name

ColIndex(columns, name) == CHOOSE j \in 1..Len(columns) : columns[j] = name

\* df[name] of one row
Cell(df, row, name) == row.cells[ColIndex(df.columns, name)]

\* Series.astype(str): a missing value becomes the text "nan"
AsStr(c) == IF c = NaN THEN <<"n","a","n">> ELSE c

\* df[REQUIRED_COLUMNS].copy()
Project(df, columns) ==
    [ columns |-> columns,
      rows |-> [ i \in 1..Len(df.rows) |->
                   [ idx |-> df.rows[i].idx,
                     cells |-> [ k \in 1..Len(columns) |->
                                   Cell(df, df.rows[i], columns[k]) ] ] ] ]

\* df[mask] for a mask that Series.apply computed.  On a frame with rows the
\* mask is boolean and selects rows.  On a frame without rows Series.apply
\* returns an empty Series of the dtype of its input (object), which pandas
\* does not take for a boolean mask but for an empty list of column labels:
\* the result then has no columns.  emptyMaskSelectsColumns says which of
\* the two the installed pandas does.
ApplyMaskIndex(df, kept, emptyMaskSelectsColumns) ==
    IF df.rows = <<>> /\ emptyMaskSelectsColumns
    THEN [columns |-> <<>>, rows |-> <<>>]
    ELSE [columns |-> df.columns, rows |-> kept]

(***************************************************************************)
(* cleaner.py: DataCleaner                                                 *)
(***************************************************************************)
\* self.stats = {} (__init__); "empty" is the emptiness of the dict.
\* removed_percentage is the exact quotient num / den (0 / 1 for 0.0).
EmptyStats ==
    [ empty |-> TRUE, original |-> 0, removed_non_russian |-> 0,
      removed_search |-> 0, removed_duplicates |-> 0, removed_empty |-> 0,
      final |-> 0, removed_percentage |-> <<0, 1>> ]

\* The dict clean_file assigns once the file is read.
FreshStats(original_count) ==
    [ empty |-> FALSE, original |-> original_count, removed_non_russian |-> 0,
      removed_search |-> 0, removed_duplicates |-> 0, removed_empty |-> 0,
      final |-> 0, removed_percentage |-> <<0, 1>> ]

\* A validation that reports only the first missing column.
MissingColumns_FirstOnly(df) ==
    LET missing == SelectSeq(REQUIRED_COLUMNS, LAMBDA column : ~HasColumn(df, column))
    IN  IF missing = <<>> THEN <<>> ELSE <<Head(missing)>>

\* _validate_columns: the required columns the frame lacks, in the order of
\* REQUIRED_COLUMNS (empty: the frame is valid).
MissingColumns(df) ==
    SelectSeq(REQUIRED_COLUMNS, LAMBDA column : ~HasColumn(df, column))

\* The schema error's message: the fixed prefix and the joined names.
SchemaMessage(missing) == [prefix |-> "missing required columns", names |-> missing]

NoMessage == [prefix |-> "", names |-> <<>>]

\* A zone test that accepts the zone anywhere in the text.
IsRussianDomain_AnyPosition(domain) ==
    LET d == Lower(Strip(domain))
    IN  \E z \in 1..Len(RUSSIAN_ZONES) : Contains(d, RUSSIAN_ZONES[z])

\* _is_russian_domain
IsRussianDomain(domain) ==
    LET d == Lower(Strip(domain))
    IN  \E z \in 1..Len(RUSSIAN_ZONES) : EndsWith(d, RUSSIAN_ZONES[z])

\* A search-engine test that looks at the end of the text only.
IsSearchEngineDomain_SuffixOnly(domain) ==
    LET d == Lower(Strip(domain))
    IN  \E e \in 1..Len(SEARCH_ENGINE_DOMAINS) :
            EndsWith(d, SEARCH_ENGINE_DOMAINS[e])

\* _is_search_engine_domain
IsSearchEngineDomain(domain) ==
    LET d == Lower(Strip(domain))
    IN  \E e \in 1..Len(SEARCH_ENGINE_DOMAINS) :
            Contains(d, SEARCH_ENGINE_DOMAINS[e])

\* _filter_russian_domains
FilterRussianDomains(df, emptyMaskSelectsColumns) ==
    LET Mask(row) == Strip(Lower(AsStr(Cell(df, row, ColDomain))))
        kept == SelectSeq(df.rows, LAMBDA row : IsRussianDomain(Mask(row)))
        filtered_df == ApplyMaskIndex(df, kept, emptyMaskSelectsColumns)
    IN  [df |-> filtered_df, removed |-> Len(df.rows) - Len(filtered_df.rows)]

\* A search-engine filter that counts the rows it keeps.
FilterSearchEngines_CountsKept(df, emptyMaskSelectsColumns) ==
    LET Mask(row) == Lower(AsStr(Cell(df, row, ColDomain)))
        kept == SelectSeq(df.rows, LAMBDA row : ~IsSearchEngineDomain(Mask(row)))
    IN  [ df |-> ApplyMaskIndex(df, kept, emptyMaskSelectsColumns),
          removed |-> Len(kept) ]

\* _filter_search_engines
FilterSearchEngines(df, emptyMaskSelectsColumns) ==
    LET Mask(row) == Lower(AsStr(Cell(df, row, ColDomain)))
        kept == SelectSeq(df.rows, LAMBDA row : ~IsSearchEngineDomain(Mask(row)))
        hit == SelectSeq(df.rows, LAMBDA row : IsSearchEngineDomain(Mask(row)))
    IN  [ df |-> ApplyMaskIndex(df, kept, emptyMaskSelectsColumns),
          removed |-> Len(hit) ]

\* A deduplication that keeps the last row of each Domain (keep="last").
DropDuplicates_KeepLast(df) ==
    LET Dup(i) == \E j \in (i + 1)..Len(df.rows) :
                      Cell(df, df.rows[j], ColDomain) = Cell(df, df.rows[i], ColDomain)
        keep == {i \in 1..Len(df.rows) : ~Dup(i)}
        Pos(k) == CHOOSE i \in keep : Cardinality({j \in keep : j < i}) = k - 1
    IN  [ columns |-> df.columns,
          rows |-> [k \in 1..Cardinality(keep) |-> df.rows[Pos(k)]] ]

\* df.drop_duplicates(subset="Домен", keep="first"): a row goes when an
\* earlier row holds the same Domain cell, compared as read.
DropDuplicates(df) ==
    LET Dup(i) == \E j \in 1..(i - 1) :
                      Cell(df, df.rows[j], ColDomain) = Cell(df, df.rows[i], ColDomain)
        keep == {i \in 1..Len(df.rows) : ~Dup(i)}
        Pos(k) == CHOOSE i \in keep : Cardinality({j \in keep : j < i}) = k - 1
    IN  [ columns |-> df.columns,
          rows |-> [k \in 1..Cardinality(keep) |-> df.rows[Pos(k)]] ]

\* _drop_empty_values
DropEmptyValues(df) ==
    LET v == ColIndex(df.columns, ColValue)
        d == ColIndex(df.columns, ColDomain)
        Clean(row) ==
            [ idx |-> row.idx,
              cells |-> [ j \in 1..Len(row.cells) |->
                            IF j \in {v, d}
                            THEN Strip(AsStr(row.cells[j]))
                            ELSE row.cells[j] ] ]
        cleaned_rows == [i \in 1..Len(df.rows) |-> Clean(df.rows[i])]
        non_empty == SelectSeq(cleaned_rows,
                               LAMBDA row : row.cells[v] # <<>> /\ row.cells[d] # <<>>)
    IN  [ df |-> [columns |-> df.columns, rows |-> non_empty],
          removed |-> Len(cleaned_rows) - Len(non_empty) ]

\* (removed_total / original_count * 100) if original_count else 0.0
RemovedPercentage(original_count, final_count) ==
    IF original_count # 0
    THEN <<(original_count - final_count) * 100, original_count>>
    ELSE <<0, 1>>

NoFrame == [columns |-> <<>>, rows |-> <<>>]

\* The frames clean_file's local df went through; stage counts them:
\* 0 nothing read, 1 read, 2 projected, 3 zone filter, 4 search-engine
\* filter, 5 deduplication, 6 empty-value drop.
Trace(stage, read, projected, zone, search, dedup, nonempty) ==
    [ stage |-> stage, read |-> read, projected |-> projected, zone |-> zone,
      search |-> search, dedup |-> dedup, nonempty |-> nonempty ]

NoTrace == Trace(0, NoFrame, NoFrame, NoFrame, NoFrame, NoFrame, NoFrame)

\* How one clean_file call ends: it returns ("ok") or raises exc; whether it
\* assigned self.stats and to what; whether it wrote the output and what.
Outcome(outcome, exc, message, assigned, st, written, output, trace) ==
    [ outcome |-> outcome, exc |-> exc, message |-> message,
      assigned |-> assigned, stats |-> st,
      written |-> written, output |-> output, trace |-> trace ]

\* DataCleaner.clean_file up to the statistics: everything before the output
\* is written.  An outcome "ok" here means the frame is ready to be written.
RunPipeline(file, emptyMaskSelectsColumns) ==
    IF file.kind # "xlsx"
    THEN Outcome("raised", ReadError(file), NoMessage, FALSE, EmptyStats,
                 FALSE, AbsentFile, NoTrace)
    ELSE
    LET df0 == ReadExcel(file)
        original_count == Len(df0.rows)
        st0 == FreshStats(original_count)
        missing == MissingColumns(df0)
    IN
    IF missing # <<>>
    THEN Outcome("raised", "ValueError", SchemaMessage(missing), TRUE, st0,
                 FALSE, AbsentFile,
                 Trace(1, df0, NoFrame, NoFrame, NoFrame, NoFrame, NoFrame))
    ELSE
    LET df2 == Project(df0, REQUIRED_COLUMNS)
        r3 == FilterRussianDomains(df2, emptyMaskSelectsColumns)
        st3 == [st0 EXCEPT !.removed_non_russian = r3.removed]
    IN
    IF ~HasColumn(r3.df, ColDomain)
    THEN \* _filter_search_engines: df["Домен"] of a frame without columns
         Outcome("raised", "KeyError", NoMessage, TRUE, st3, FALSE, AbsentFile,
                 Trace(3, df0, df2, r3.df, NoFrame, NoFrame, NoFrame))
    ELSE
    LET r4 == FilterSearchEngines(r3.df, emptyMaskSelectsColumns)
        st4 == [st3 EXCEPT !.removed_search = r4.removed]
    IN
    IF ~HasColumn(r4.df, ColDomain)
    THEN \* drop_duplicates(subset="Домен") of a frame without columns
         Outcome("raised", "KeyError", NoMessage, TRUE, st4, FALSE, AbsentFile,
                 Trace(4, df0, df2, r3.df, r4.df, NoFrame, NoFrame))
    ELSE
    LET before_duplicates == Len(r4.df.rows)
        df5 == DropDuplicates(r4.df)
        st5 == [st4 EXCEPT !.removed_duplicates = before_duplicates - Len(df5.rows)]
        r6 == DropEmptyValues(df5)
        final_count == Len(r6.df.rows)
        st6 == [st5 EXCEPT !.removed_empty = r6.removed,
                           !.final = final_count,
                           !.removed_percentage =
                               RemovedPercentage(original_count, final_count)]
    IN  Outcome("ok", "none", NoMessage, TRUE, st6, FALSE, AbsentFile,
                Trace(6, df0, df2, r3.df, r4.df, df5, r6.df))

\* The end of clean_file: df.to_excel(output_path, index=False), which
\* raises when writeFails (the output path cannot be written).
WriteOutput(p, writeFails) ==
    IF p.outcome # "ok" THEN p
    ELSE IF writeFails
    THEN [p EXCEPT !.outcome = "raised", !.exc = "OSError"]
    ELSE [p EXCEPT !.written = TRUE, !.output = ToExcel(p.trace.nonempty)]

\* DataCleaner.clean_file on the file at input_path.
RunCleanFile(file, writeFails, emptyMaskSelectsColumns) ==
    WriteOutput(RunPipeline(file, emptyMaskSelectsColumns), writeFails)

\* f"{x:.2f}" of the quotient q: hundredths, rounded half to even.
Format2f(q) ==
    LET n == q[1] * 100
        lo == n \div q[2]
        twice == 2 * (n - lo * q[2])
    IN  IF twice > q[2] \/ (twice = q[2] /\ lo % 2 = 1) THEN lo + 1 ELSE lo

\* DataCleaner.get_stats_message
GetStatsMessage(st) ==
    IF st.empty
    THEN [ kind |-> "unavailable", original |-> 0, final |-> 0,
           removed_non_russian |-> 0, removed_search |-> 0,
           removed_duplicates |-> 0, removed_empty |-> 0, percent2f |-> 0 ]
    ELSE [ kind |-> "statistics", original |-> st.original, final |-> st.final,
           removed_non_russian |-> st.removed_non_russian,
           removed_search |-> st.removed_search,
           removed_duplicates |-> st.removed_duplicates,
           removed_empty |-> st.removed_empty,
           percent2f |-> Format2f(st.removed_percentage) ]

(***************************************************************************)
(* Inputs: the sheets a user may send.                                     *)
(***************************************************************************)
\* Value cells: text to trim, whitespace only, a blank cell.
Values == { <<" ","x">>, <<" ">>, <<>> }

\* Domain cells: "a.ru", " a.ru", "A.RU", "a.suv", "bing.com.ru", blank.
Domains ==
    { <<"a",".","r","u">>, <<" ","a",".","r","u">>, <<"A",".","R","U">>,
      <<"a",".","s","u","v">>,
      <<"b","i","n","g",".","c","o","m",".","r","u">>, <<>> }

\* Title and META Description cells (the same text in both): text, blank.
Titles == { <<"T">>, <<>> }

\* Rows with a title, and one row of plain text without.
RowChoices ==
    [v : Values, d : Domains, t : {<<"T">>}]
    \cup [v : {<<" ","x">>}, d : {<<"a",".","r","u">>}, t : {<<>>}]

\* Rows of the sheets with an arbitrary header.
SchemaRowChoices ==
    [v : {<<" ","x">>}, d : {<<"a",".","r","u">>, <<"a",".","s","u","v">>}, t : Titles]

ColDomainLower == "domen"
ColExtra == "Extra"

\* The cell of one row under the header `column`.
CellFor(column, c) ==
    CASE column = ColValue -> c.v
      [] column \in {ColDomain, ColDomainLower} -> c.d
      [] column \in {ColTitle, ColMeta} -> c.t
      [] OTHER -> <<"e">>

SheetOf(columns, choices) ==
    Sheet(columns,
          [ i \in 1..Len(choices) |->
              [ j \in 1..Len(columns) |-> CellFor(columns[j], choices[i]) ] ])

SeqsUpTo(S, n) == UNION { [1..k -> S] : k \in 0..n }

\* Headers: every selection of these names, in this order.  Some lack
\* required columns, some have a column more, one differs by case only.
HeaderNames == <<ColExtra, ColDomain, ColValue, ColDomainLower, ColTitle, ColMeta>>

Headers ==
    { SelectSeq(HeaderNames, LAMBDA name : name \in S) :
          S \in SUBSET { HeaderNames[i] : i \in 1..Len(HeaderNames) } }

InputFiles ==
    { SheetOf(REQUIRED_COLUMNS, rows) : rows \in SeqsUpTo(RowChoices, MaxRows) }
    \cup { SheetOf(h, rows) : h \in Headers,
                                rows \in SeqsUpTo(SchemaRowChoices, MaxSchemaRows) }
    \cup { NotExcelFile, BadZipFile }

Paths == {"in", "out"}

(***************************************************************************)
(* State.                                                                  *)
(***************************************************************************)
\* No clean_file call yet on the instance.
NoCall ==
    [ called |-> FALSE, src |-> "in", input |-> AbsentFile, outcome |-> "none",
      exc |-> "none", message |-> NoMessage, assigned |-> FALSE,
      written |-> FALSE, trace |-> NoTrace ]

\* No handle_document call yet.
BotIdle ==
    [ handled |-> FALSE, gate |-> "none", failed |-> "none", exc |-> "none",
      sent |-> <<>>, propagated |-> "none" ]

Init ==
    /\ \E f \in InputFiles :
           files = [p \in Paths |-> IF p = "in" THEN f ELSE AbsentFile]
    /\ stats = EmptyStats
    /\ last = NoCall
    /\ bot = BotIdle

(***************************************************************************)
(* DataCleaner.clean_file(input_path, output_path) on the instance.        *)
(***************************************************************************)
\* writeFails is the environment's choice once the frame is ready.
CleanFile(input_path, output_path, emptyMaskSelectsColumns) ==
    \E p \in {RunPipeline(files[input_path], emptyMaskSelectsColumns)} :
    \E writeFails \in BOOLEAN :
    \E r \in {WriteOutput(p, writeFails)} :
        /\ stats' = IF r.assigned THEN r.stats ELSE stats
        /\ files' = IF r.written
                    THEN [files EXCEPT ![output_path] = r.output]
                    ELSE files
        /\ last' = [ called |-> TRUE, src |-> input_path,
                     input |-> files[input_path], outcome |-> r.outcome,
                     exc |-> r.exc, message |-> r.message,
                     assigned |-> r.assigned, written |-> r.written,
                     trace |-> r.trace ]
        /\ UNCHANGED bot

Next ==
    \E input_path \in Paths, quirk \in BOOLEAN :
        CleanFile(input_path, "out", quirk)

Spec == Init /\ [][Next]_vars

(***************************************************************************)
(* bot.py: handle_document                                                 *)
(***************************************************************************)
\* What the handler sends to the chat.
Msg(kind, body, exc, message) ==
    [kind |-> kind, body |-> body, exc |-> exc, message |-> message]

ProcessingMsg == Msg("processing", GetStatsMessage(EmptyStats), "none", NoMessage)
TooBigMsg == Msg("too_big", GetStatsMessage(EmptyStats), "none", NoMessage)
BadExtensionMsg == Msg("bad_extension", GetStatsMessage(EmptyStats), "none", NoMessage)

\* reply_text(stats_message)
StatsMsg(body) == Msg("statistics", body, "none", NoMessage)

\* reply_document(cleaned_file)
DocumentMsg == Msg("document", GetStatsMessage(EmptyStats), "none", NoMessage)

\* reply_text(f"❌ Ошибка: {exc}")
ErrorMsg(exc, message) == Msg("error", GetStatsMessage(EmptyStats), exc, message)

\* reply_text("❌ Произошла непредвиденная ошибка ...")
GenericMsg == Msg("generic", GetStatsMessage(EmptyStats), "none", NoMessage)

\* isinstance(exc, ValueError)
IsValueError(exc) == exc = "ValueError"

\* The step of the try block that raised, told from how clean_file ended.
FailedStep(r) ==
    CASE r.outcome = "ok" -> "none"
      [] r.trace.stage = 0 -> "read"
      [] r.message # NoMessage -> "schema"
      [] r.trace.stage < 6 -> "pipeline"
      [] OTHER -> "write"

\* The except clauses: ValueError first, then Exception; the reply itself may
\* fail, and then its exception leaves the handler.
Handled(step, exc, message, sentSoFar, errorReplyFails) ==
    [ handled |-> TRUE, gate |-> "accepted", failed |-> step, exc |-> exc,
      sent |-> IF errorReplyFails THEN sentSoFar
               ELSE IF IsValueError(exc)
                    THEN Append(sentSoFar, ErrorMsg(exc, message))
                    ELSE Append(sentSoFar, GenericMsg),
      propagated |-> IF errorReplyFails THEN "TelegramError" ELSE "none" ]

\* handle_document.  gate: how far the checks before the try block let the
\* update go.  fault: the step of the try block that the environment makes
\* fail (the download, writing the output, a reply), if any.
HandleDocument(gate, fault, errorReplyFails, emptyMaskSelectsColumns) ==
    /\ \/ /\ gate = "no_document"
          /\ bot' = [BotIdle EXCEPT !.handled = TRUE, !.gate = gate]
       \/ /\ gate = "too_big"
          /\ bot' = [BotIdle EXCEPT !.handled = TRUE, !.gate = gate,
                                    !.sent = <<TooBigMsg>>]
       \/ /\ gate = "bad_extension"
          /\ bot' = [BotIdle EXCEPT !.handled = TRUE, !.gate = gate,
                                    !.sent = <<BadExtensionMsg>>]
       \/ /\ gate = "accepted"
          /\ fault = "download"
          /\ bot' = Handled("download", "TelegramError", NoMessage,
                            <<ProcessingMsg>>, errorReplyFails)
       \/ /\ gate = "accepted"
          /\ fault # "download"
          /\ \E r \in {RunCleanFile(files["in"], fault = "write",
                                    emptyMaskSelectsColumns)} :
               bot' =
                 IF r.outcome = "raised"
                 THEN Handled(FailedStep(r), r.exc, r.message,
                              <<ProcessingMsg>>, errorReplyFails)
                 ELSE IF fault = "send_stats"
                 THEN Handled("send_stats", "TelegramError", NoMessage,
                              <<ProcessingMsg>>, errorReplyFails)
                 ELSE IF fault = "send_document"
                 THEN Handled("send_document", "TelegramError", NoMessage,
                              <<ProcessingMsg, StatsMsg(GetStatsMessage(r.stats))>>,
                              errorReplyFails)
                 ELSE [ handled |-> TRUE, gate |-> "accepted",
                        failed |-> "none", exc |-> "none",
                        sent |-> << ProcessingMsg,
                                    StatsMsg(GetStatsMessage(r.stats)),
                                    DocumentMsg >>,
                        propagated |-> "none" ]
    \* data_cleaner is a new DataCleaner(); the temporary files are unlinked.
    /\ UNCHANGED <<files, stats, last>>

Gates == {"no_document", "too_big", "bad_extension", "accepted"}

Faults == {"none", "download", "write", "send_stats", "send_document"}

NextBot ==
    \E gate \in Gates, fault \in Faults, errorReplyFails \in BOOLEAN,
       quirk \in BOOLEAN :
        HandleDocument(gate, fault, errorReplyFails, quirk)

SpecBot == Init /\ [][NextBot]_vars

(***************************************************************************)
(* Properties.  The statements below speak of the stages through the       *)
(* frames recorded in last.trace and of text through prefixes and          *)
(* concatenation, not through the operators of the pipeline.               *)
(***************************************************************************)
Idx(frame) == { frame.rows[i].idx : i \in 1..Len(frame.rows) }

Rows(frame) == { frame.rows[i] : i \in 1..Len(frame.rows) }

\* The Domain and Value cells of a row of a frame with the required columns.
DomainOf(row) == row.cells[2]
ValueOf(row) == row.cells[1]

\* s = p \o suffix for some p
HasSuffix(s, suffix) == \E k \in 0..Len(s) : SubSeq(s, 1, k) \o suffix = s

\* s = p \o part \o q for some p, q
HasPart(s, part) ==
    \E k \in 0..Len(s) : \E m \in k..Len(s) :
        SubSeq(s, 1, k) \o part \o SubSeq(s, m + 1, Len(s)) = s

ZoneSet == { <<".","r","u">>, <<".","cyr_er","cyr_ef">>, <<".","s","u">> }

MarkerSet == { SEARCH_ENGINE_DOMAINS[i] : i \in 1..Len(SEARCH_ENGINE_DOMAINS) }

EndsWithZone(s) == \E z \in ZoneSet : HasSuffix(s, z)

HasMarker(s) == \E m \in MarkerSet : HasPart(s, m)

\* A cell as text: a missing value reads "nan".
Text(c) == IF c = <<"NaN">> THEN <<"n","a","n">> ELSE c

\* The clean_file call just made went through the whole pipeline.
Completed == last.called /\ last.outcome = "ok"

\* C1: after clean_file completes on a sheet with the four required columns,
\* original = final + removed_non_russian + removed_search +
\* removed_duplicates + removed_empty, and each counter is the number of rows
\* its own stage took from the frame the previous stage left, in the order
\* zone filter, search-engine filter, deduplication, empty-value drop.
C1_StatsBalance ==
    Completed =>
        LET t == last.trace
        IN  /\ stats.original = Len(last.input.rows)
            /\ stats.original = stats.final + stats.removed_non_russian
                   + stats.removed_search + stats.removed_duplicates
                   + stats.removed_empty
            /\ Idx(t.zone) \subseteq Idx(t.projected)
            /\ Idx(t.search) \subseteq Idx(t.zone)
            /\ Idx(t.dedup) \subseteq Idx(t.search)
            /\ Idx(t.nonempty) \subseteq Idx(t.dedup)
            /\ stats.removed_non_russian = Cardinality(Idx(t.projected) \ Idx(t.zone))
            /\ stats.removed_search = Cardinality(Idx(t.zone) \ Idx(t.search))
            /\ stats.removed_duplicates = Cardinality(Idx(t.search) \ Idx(t.dedup))
            /\ stats.removed_empty = Cardinality(Idx(t.dedup) \ Idx(t.nonempty))
            /\ stats.final = Cardinality(Idx(t.nonempty))
            /\ stats.final = Len(files["out"].rows)

\* A completed run in which two different stages each removed a row.
C1_Witness ==
    /\ Completed
    /\ Cardinality({ k \in {"removed_non_russian", "removed_search",
                            "removed_duplicates", "removed_empty"} :
                         stats[k] > 0 }) >= 2

RequiredSet == {"Znachenie", "Domen", "Zagolovok", "META Description"}

Header(file) == { file.columns[j] : j \in 1..Len(file.columns) }

SchemaError == last.outcome = "raised" /\ last.exc = "ValueError" /\ last.trace.stage = 1

\* C2: clean_file of a sheet whose header lacks required column names (exact
\* match) raises the schema error, whose message names every missing column;
\* a sheet with all four, with or without more columns, raises no schema
\* error.
C2_SchemaError ==
    (last.called /\ last.input.kind = "xlsx") =>
        LET missing == RequiredSet \ Header(last.input)
        IN  /\ missing # {} =>
                /\ SchemaError
                /\ { last.message.names[i] : i \in 1..Len(last.message.names) } = missing
                /\ Len(last.message.names) = Cardinality(missing)
            /\ missing = {} => (~SchemaError /\ last.message.names = <<>>)

\* A sheet that lacks two required columns (one present in another letter
\* case only) was refused.
C2_Witness ==
    /\ last.called /\ SchemaError
    /\ "domen" \in Header(last.input)
    /\ Len(last.message.names) >= 2

\* The sheet at "out" is always one that a completed run wrote, so a call
\* that read "out" cleaned the cleaner's own output.
Recleaned == Completed /\ last.src = "out"

\* C3: idempotence.  A run on the cleaned sheet of an earlier run removes
\* nothing (all four removal counters are 0, final = original) and writes
\* the sheet it read, whatever the Domain and Value texts were.
C3_Idempotent ==
    Recleaned =>
        /\ stats.removed_non_russian = 0
        /\ stats.removed_search = 0
        /\ stats.removed_duplicates = 0
        /\ stats.removed_empty = 0
        /\ stats.final = stats.original
        /\ files["out"] = last.input

\* C4: when clean_file raises (reading, schema validation or writing),
\* nothing of that run is available: no output was written and the instance
\* holds no statistics of the failed run for get_stats_message to report.
C4_NoPartialResults ==
    (last.called /\ last.outcome = "raised") =>
        /\ ~last.written
        /\ ~(last.assigned /\ GetStatsMessage(stats).kind = "statistics")

ShopRu == <<"s","h","o","p",".","r","u">>
ExampleSu == <<"e","x","a","m","p","l","e",".","s","u">>
RuInfo == <<"r","u",".","i","n","f","o">>
ExampleSuv == <<"e","x","a","m","p","l","e",".","s","u","v">>
GoogleProxy ==
    <<"w","w","w",".","g","o","o","g","l","e",".","c","o","m",".","p","r","o","x","y">>

\* The zone filter as C5 states it: a row survives iff its Domain,
\* lower-cased and trimmed, ends with ".ru", ".рф" or ".su"; a zone elsewhere
\* in the text does not count ("shop.ru" and "example.su" pass, "ru.info"
\* and "example.suv" do not).
ZoneFilterSuffixExact ==
    /\ IsRussianDomain(ShopRu) /\ IsRussianDomain(ExampleSu)
    /\ ~IsRussianDomain(RuInfo) /\ ~IsRussianDomain(ExampleSuv)
    /\ (last.called /\ last.trace.stage >= 3) =>
           \A row \in Rows(last.trace.projected) :
               (row \in Rows(last.trace.zone))
                   <=> EndsWithZone(Lower(Strip(Text(DomainOf(row)))))

\* C5, as stated: the zone filter is suffix-exact, and every row of the
\* cleaned sheet has a Domain ending with a configured zone.
C5_Original ==
    /\ ZoneFilterSuffixExact
    /\ Completed =>
           \A i \in 1..Len(files["out"].rows) :
               EndsWithZone(files["out"].rows[i][2])

\* C5, amended: the zone filter is suffix-exact, and every row of the
\* cleaned sheet has a Domain whose lower-cased form ends with a configured
\* zone (the cleaned sheet keeps the letter case of the Domain as read).
C5_ZoneSuffix ==
    /\ ZoneFilterSuffixExact
    /\ Completed =>
           \A i \in 1..Len(files["out"].rows) :
               EndsWithZone(Lower(files["out"].rows[i][2]))

\* The zone filter kept a row whose Domain is not in normal form and removed
\* a row whose Domain holds a zone that is not at its end.
C5_Witness ==
    /\ last.called /\ last.trace.stage >= 3
    /\ \E row \in Rows(last.trace.zone) :
           Lower(Strip(DomainOf(row))) # DomainOf(row)
    /\ \E row \in Rows(last.trace.projected) \ Rows(last.trace.zone) :
           \E z \in ZoneSet : HasPart(DomainOf(row), z)

\* C6: of the rows the zone filter left, the search-engine filter drops
\* exactly those whose lower-cased Domain contains a search-engine marker
\* anywhere, removed_search counts them, and no row of the cleaned sheet has
\* such a Domain ("www.google.com.proxy" contains "google.com").
C6_SearchSubstring ==
    /\ IsSearchEngineDomain(GoogleProxy)
    /\ (last.called /\ last.trace.stage >= 4) =>
           /\ \A row \in Rows(last.trace.zone) :
                  (row \notin Rows(last.trace.search))
                      <=> HasMarker(Lower(Text(DomainOf(row))))
           /\ stats.removed_search =
                  Cardinality({ row \in Rows(last.trace.zone) :
                                    HasMarker(Lower(Text(DomainOf(row)))) })
    /\ Completed =>
           \A i \in 1..Len(files["out"].rows) :
               ~HasMarker(Lower(files["out"].rows[i][2]))

\* The search-engine filter dropped a row whose Domain holds a marker before
\* its end, and kept another row.
C6_Witness ==
    /\ last.called /\ last.trace.stage >= 4
    /\ stats.removed_search >= 1
    /\ \E row \in Rows(last.trace.zone) \ Rows(last.trace.search) :
           \A m \in MarkerSet : ~HasSuffix(Lower(DomainOf(row)), m)
    /\ last.trace.search.rows # <<>>

\* C7: deduplication keeps, for each Domain text as read (no trimming, no
\* lower-casing), the earliest row and removes every later one;
\* removed_duplicates counts the removed rows and the kept rows stay in
\* their original order.
C7_KeepFirst ==
    (last.called /\ last.trace.stage >= 5) =>
        LET before == last.trace.search
            after == last.trace.dedup
        IN  /\ \A row \in Rows(before) :
                   (row \in Rows(after)) <=>
                       ~\E earlier \in Rows(before) :
                            /\ earlier.idx < row.idx
                            /\ DomainOf(earlier) = DomainOf(row)
            /\ Rows(after) \subseteq Rows(before)
            /\ \A i \in 1..Len(after.rows) : \A j \in 1..Len(after.rows) :
                   i < j => after.rows[i].idx < after.rows[j].idx
            /\ stats.removed_duplicates = Cardinality(Rows(before) \ Rows(after))

\* Deduplication removed a later row and kept the first row of the sheet.
C7_Witness ==
    /\ last.called /\ last.trace.stage >= 5
    /\ stats.removed_duplicates >= 1
    /\ \E row \in Rows(last.trace.dedup) : row.idx = 0

\* A cell is empty: blank in the source sheet, or nothing but whitespace.
EmptyCell(c) == c = <<"NaN">> \/ \A k \in 1..Len(c) : c[k] \in {" ", "\t", "\n", "\r"}

\* C8: a row that reaches the empty-value drop is removed, and counted in
\* removed_empty, iff its Value or its Domain is empty after trimming (a
\* blank cell of the sheet counts as empty); Title and META Description
\* never decide; no row of the cleaned sheet has an empty Value or Domain,
\* and both are trimmed.
C8_EmptyDropped ==
    (last.called /\ last.trace.stage >= 6) =>
        /\ \A row \in Rows(last.trace.dedup) :
               (row.idx \notin Idx(last.trace.nonempty))
                   <=> (EmptyCell(ValueOf(row)) \/ EmptyCell(DomainOf(row)))
        /\ stats.removed_empty =
               Cardinality({ row \in Rows(last.trace.dedup) :
                                 EmptyCell(ValueOf(row)) \/ EmptyCell(DomainOf(row)) })
        /\ \A row \in Rows(last.trace.nonempty) :
               /\ ValueOf(row) # <<>> /\ DomainOf(row) # <<>>
               /\ Strip(ValueOf(row)) = ValueOf(row)
               /\ Strip(DomainOf(row)) = DomainOf(row)

\* C9: the statistics are reset at the start of every clean_file call: after
\* any call, completed or failed, the instance reports no counters of an
\* earlier call; before the first call get_stats_message returns the fixed
\* "no statistics available" message.
C9_StatsOfLastCall ==
    /\ ~last.called => GetStatsMessage(stats).kind = "unavailable"
    /\ last.called =>
           (GetStatsMessage(stats).kind = "statistics" => last.assigned)

Kinds(sent) == { sent[i].kind : i \in 1..Len(sent) }

Count(sent, kind) == Cardinality({ i \in 1..Len(sent) : sent[i].kind = kind })

\* C10: handle_document sends the schema-error message only when clean_file
\* failed for missing columns; every other failure, whatever its exception,
\* gets the generic message; in every outcome exactly one of statistics with
\* the cleaned file, the schema-error message, the generic message is sent,
\* and no exception leaves the handler.
C10_FailureClassification ==
    (bot.handled /\ bot.gate = "accepted") =>
        /\ "error" \in Kinds(bot.sent) => bot.failed = "schema"
        /\ bot.failed \notin {"none", "schema"} => "generic" \in Kinds(bot.sent)
        /\ \/ /\ Count(bot.sent, "statistics") = 1 /\ Count(bot.sent, "document") = 1
              /\ Kinds(bot.sent) \cap {"error", "generic"} = {}
           \/ /\ Count(bot.sent, "error") = 1
              /\ Kinds(bot.sent) \cap {"statistics", "document", "generic"} = {}
           \/ /\ Count(bot.sent, "generic") = 1
              /\ Kinds(bot.sent) \cap {"statistics", "document", "error"} = {}
        /\ bot.propagated = "none"

====
